---- MODULE Spec2Model ----
(***************************************************************************)
(* USBasp firmware, main.c: the command dispatcher usbFunctionSetup and    *)
(* the two streaming engines usbFunctionRead and usbFunctionWrite, with    *)
(* the session state they share (the prog_* statics).                      *)
(*                                                                         *)
(* Widths are those of the ATmega8 build: uchar is 8 bits, int and         *)
(* unsigned int are 16 bits, unsigned long is 32 bits.                     *)
(***************************************************************************)
EXTENDS Integers, Sequences, FiniteSets

VARIABLES
    prog_state,            \* main.c:29  uchar
    prog_sck,              \* main.c:30  uchar
    prog_address_newmode,  \* main.c:32  uchar
    prog_address,          \* main.c:33  unsigned long, as <<high 16 bits, low 16 bits>>
    prog_nbytes,           \* main.c:34  unsigned int
    prog_pagesize,         \* main.c:35  unsigned int
    prog_blockflags,       \* main.c:36  uchar
    prog_pagecounter,      \* main.c:37  uchar
    call,                  \* the last handler invocation: its inputs, its
                           \* transport calls in order, the bytes it stored in
                           \* replyBuffer or in the caller's buffer, its return value
    sess                   \* history: the transfer opened by the last bulk command

vars == <<prog_state, prog_sck, prog_address_newmode, prog_address, prog_nbytes,
          prog_pagesize, prog_blockflags, prog_pagecounter, call, sess>>

-----------------------------------------------------------------------------
(* Integer widths *)

U8  == 256
U16 == 65536

\* An unsigned long is kept as its two 16-bit halves, <<high, low>>: the
\* model checker's integers are narrower than 2^32.
Long(hi, lo) == <<hi, lo>>

\* a + 1 in 32 bits
LongInc(a) ==
    IF a[2] + 1 < U16 THEN Long(a[1], a[2] + 1) ELSE Long((a[1] + 1) % U16, 0)

\* a + n in 32 bits, 0 <= n < 2^16
LongPlus(a, n) ==
    IF a[2] + n < U16 THEN Long(a[1], a[2] + n)
    ELSE Long((a[1] + 1) % U16, a[2] + n - U16)

\* the transport's packet size, the literal of "if (len < 8)"
ChunkMax == 8

-----------------------------------------------------------------------------
(* usbasp.h and isp.h: the protocol constants main.c names *)

USBASP_FUNC_CONNECT        == 1
USBASP_FUNC_DISCONNECT     == 2
USBASP_FUNC_TRANSMIT       == 3
USBASP_FUNC_READFLASH      == 4
USBASP_FUNC_ENABLEPROG     == 5
USBASP_FUNC_WRITEFLASH     == 6
USBASP_FUNC_READEEPROM     == 7
USBASP_FUNC_WRITEEEPROM    == 8
USBASP_FUNC_SETLONGADDRESS == 9
USBASP_FUNC_SETISPSCK      == 10

PROG_STATE_IDLE        == 0
PROG_STATE_WRITEFLASH  == 1
PROG_STATE_READFLASH   == 2
PROG_STATE_READEEPROM  == 3
PROG_STATE_WRITEEEPROM == 4

PROG_BLOCKFLAG_FIRST == 1
PROG_BLOCKFLAG_LAST  == 2

USBASP_ISP_SCK_AUTO == 0
USBASP_ISP_SCK_8    == 5

\* x & mask for a one-bit mask
HasBit(x, mask) == (x \div mask) % 2 = 1

-----------------------------------------------------------------------------
(* The Target Programming Transport (isp.c): each call is recorded, in     *)
(* order, in call.ops; line is the line of main.c that makes the call.     *)

TOp(name, addr, val, arg, line) ==
    [op |-> name, addr |-> addr, val |-> val, arg |-> arg, line |-> line]

\* What the target answers.  The contents of the target are not part of
\* main.c: a fixed content, different for the two memories, stands for them.
ispReadFlash(address)  == (3 * (address[2] % U8) + 1) % U8
ispReadEEPROM(address) == (5 * (address[2] % U8) + 2) % U8
ispTransmit(b)         == (U8 - 1) - b

\* ispEnterProgrammingMode's status byte: 0 the target answered, 1 it did not
EnterProgStatus == {0, 1}

-----------------------------------------------------------------------------
(* The session state as one record, with the locals of the running handler *)
(* (ops: its transport calls so far; buf: the bytes it has stored, in       *)
(* replyBuffer or in the caller's buffer; len: its return value so far).   *)
(* replyBuffer (main.c:27) is read by the transport only up to the length  *)
(* the same call returns, and every command that returns a length stores   *)
(* those bytes first: it is modelled by buf, the bytes the call stores.    *)

Session ==
    [state |-> prog_state, sck |-> prog_sck, newmode |-> prog_address_newmode,
     address |-> prog_address, nbytes |-> prog_nbytes, pagesize |-> prog_pagesize,
     blockflags |-> prog_blockflags, pagecounter |-> prog_pagecounter,
     ops |-> <<>>, buf |-> <<>>, len |-> 0]

\* the fields of the Session State (everything but the locals)
StateOf(s) ==
    [state |-> s.state, sck |-> s.sck, newmode |-> s.newmode, address |-> s.address,
     nbytes |-> s.nbytes, pagesize |-> s.pagesize, blockflags |-> s.blockflags,
     pagecounter |-> s.pagecounter]

-----------------------------------------------------------------------------
(* usbFunctionSetup: the decoding of the descriptor's parameters *)

\* (data[3] << 8) | data[2], an int expression, assigned to an unsigned long.
\* With data[3] >= 0x80 the shift overflows the 16-bit int: the build either
\* keeps the wrapped, negative int, which widens with the sign (what avr-gcc
\* emits), or treats the pair as the 16-bit load it is for every defined value.
LegacyAddress(data, signExtends) ==
    LET v == data[3] * 256 + data[2]
    IN  IF v >= 32768 /\ signExtends THEN Long(U16 - 1, v) ELSE Long(0, v)

\* (data[7] << 8) | data[6] assigned to an unsigned int: the low 16 bits
ByteCount(data) == (data[7] * 256 + data[6]) % U16

\* *((unsigned long*) &data[2]), little-endian
LongAddress(data) ==
    Long(data[4] + 256 * data[5], data[2] + 256 * data[3])

\* mutant: the page size without the bits of data[5]
PageSize_LowByteOnly(data) == data[4]

\* prog_pagesize = data[4]; prog_pagesize += (((unsigned int) data[5] & 0xF0) << 4)
PageSize(data) == (data[4] + ((data[5] - (data[5] % 16)) * 16)) % U16

\* prog_blockflags = data[5] & 0x0F
BlockFlags(data) == data[5] % 16

\* if (!prog_address_newmode) prog_address = (data[3] << 8) | data[2];
SetLegacyAddress(s, data, env) ==
    IF s.newmode = 0
    THEN [s EXCEPT !.address = LegacyAddress(data, env.signExtends)]
    ELSE s

-----------------------------------------------------------------------------
(* usbFunctionSetup: one operator per branch of the opcode chain *)

\* mutant: Connect without "prog_address_newmode = 0"
SetupConnect_KeepsNewmode(s, env) ==
    [s EXCEPT
        !.ops = << TOp("ispSetSCKOption", 0,
                       IF env.pin = 0 THEN USBASP_ISP_SCK_8 ELSE s.sck, 0,
                       IF env.pin = 0 THEN 47 ELSE 49),
                   TOp("ispConnect", 0, 0, 0, 56) >>]

SetupConnect(s, env) ==
    [s EXCEPT
        !.ops = << TOp("ispSetSCKOption", 0,
                       IF env.pin = 0 THEN USBASP_ISP_SCK_8 ELSE s.sck, 0,
                       IF env.pin = 0 THEN 47 ELSE 49),
                   TOp("ispConnect", 0, 0, 0, 56) >>,
        !.newmode = 0]

\* mutant: Disconnect also leaves the extended-address mode
SetupDisconnect_ClearsNewmode(s) ==
    [s EXCEPT !.ops = << TOp("ispDisconnect", 0, 0, 0, 59) >>, !.newmode = 0]

SetupDisconnect(s) ==
    [s EXCEPT !.ops = << TOp("ispDisconnect", 0, 0, 0, 59) >>]

SetupTransmit(s, data) ==
    [s EXCEPT
        !.ops = << TOp("ispTransmit", 0, data[2], 0, 63),
                   TOp("ispTransmit", 0, data[3], 0, 64),
                   TOp("ispTransmit", 0, data[4], 0, 65),
                   TOp("ispTransmit", 0, data[5], 0, 66) >>,
        !.buf = [i \in 1..4 |-> ispTransmit(data[i + 1])],
        !.len = 4]

SetupReadFlash(s, data, env) ==
    [SetLegacyAddress(s, data, env) EXCEPT
        !.nbytes = ByteCount(data),
        !.state = PROG_STATE_READFLASH,
        !.len = 255]

SetupReadEeprom(s, data, env) ==
    [SetLegacyAddress(s, data, env) EXCEPT
        !.nbytes = ByteCount(data),
        !.state = PROG_STATE_READEEPROM,
        !.len = 255]

\* mutant: EnableProg also ends the transfer in progress
SetupEnableProg_EndsTransfer(s, env) ==
    [s EXCEPT
        !.ops = << TOp("ispEnterProgrammingMode", 0, 0, 0, 88) >>,
        !.buf = << env.status >>,
        !.len = 1,
        !.state = PROG_STATE_IDLE]

SetupEnableProg(s, env) ==
    [s EXCEPT
        !.ops = << TOp("ispEnterProgrammingMode", 0, 0, 0, 88) >>,
        !.buf = << env.status >>,
        !.len = 1]

SetupWriteFlash(s, data, env) ==
    [SetLegacyAddress(s, data, env) EXCEPT
        !.pagesize = PageSize(data),
        !.blockflags = BlockFlags(data),
        \* prog_pagecounter is a uchar: the assignment keeps the low 8 bits
        !.pagecounter = IF HasBit(BlockFlags(data), PROG_BLOCKFLAG_FIRST)
                        THEN PageSize(data) % U8
                        ELSE s.pagecounter,
        !.nbytes = ByteCount(data),
        !.state = PROG_STATE_WRITEFLASH,
        !.len = 255]

SetupWriteEeprom(s, data, env) ==
    [SetLegacyAddress(s, data, env) EXCEPT
        !.pagesize = 0,
        !.blockflags = 0,
        !.nbytes = ByteCount(data),
        !.state = PROG_STATE_WRITEEEPROM,
        !.len = 255]

SetupSetLongAddress(s, data) ==
    [s EXCEPT !.newmode = 1, !.address = LongAddress(data)]

SetupSetIspSck(s, data) ==
    [s EXCEPT
        !.sck = data[2],
        !.buf = << 0 >>,
        !.len = 1]

\* mutant: an unknown opcode ends the transfer in progress
SetupOther_EndsTransfer(s) == [s EXCEPT !.state = PROG_STATE_IDLE]

\* no branch of the chain matches: len keeps its initial 0
SetupOther(s) == s

\* the if / else-if chain on data[1]
usbFunctionSetup(s, data, env) ==
    CASE data[1] = USBASP_FUNC_CONNECT        -> SetupConnect(s, env)
      [] data[1] = USBASP_FUNC_DISCONNECT     -> SetupDisconnect(s)
      [] data[1] = USBASP_FUNC_TRANSMIT       -> SetupTransmit(s, data)
      [] data[1] = USBASP_FUNC_READFLASH      -> SetupReadFlash(s, data, env)
      [] data[1] = USBASP_FUNC_READEEPROM     -> SetupReadEeprom(s, data, env)
      [] data[1] = USBASP_FUNC_ENABLEPROG     -> SetupEnableProg(s, env)
      [] data[1] = USBASP_FUNC_WRITEFLASH     -> SetupWriteFlash(s, data, env)
      [] data[1] = USBASP_FUNC_WRITEEEPROM    -> SetupWriteEeprom(s, data, env)
      [] data[1] = USBASP_FUNC_SETLONGADDRESS -> SetupSetLongAddress(s, data)
      [] data[1] = USBASP_FUNC_SETISPSCK      -> SetupSetIspSck(s, data)
      [] OTHER                                -> SetupOther(s)

-----------------------------------------------------------------------------
(* usbFunctionRead *)

\* mutant: the loop reads the flash whatever the mode
ReadByte_AlwaysFlash(s) ==
    LET v == ispReadFlash(s.address)
    IN  [s EXCEPT !.ops = Append(@, TOp("ispReadFlash", s.address, v, 0, 150)),
                  !.buf = Append(@, v),
                  !.address = LongInc(s.address)]

\* the body of the "fill packet" loop
ReadByte(s) ==
    LET v == IF s.state = PROG_STATE_READFLASH
             THEN ispReadFlash(s.address) ELSE ispReadEEPROM(s.address)
        o == IF s.state = PROG_STATE_READFLASH
             THEN TOp("ispReadFlash", s.address, v, 0, 150)
             ELSE TOp("ispReadEEPROM", s.address, v, 0, 152)
    IN  [s EXCEPT !.ops = Append(@, o),
                  !.buf = Append(@, v),
                  !.address = LongInc(s.address)]

RECURSIVE ReadLoop(_, _)
ReadLoop(s, n) == IF n = 0 THEN s ELSE ReadLoop(ReadByte(s), n - 1)

\* "last packet?"
ReadLast(s, len) ==
    IF len < ChunkMax THEN [s EXCEPT !.state = PROG_STATE_IDLE] ELSE s

ReadStateOk(s) ==
    ~ (s.state # PROG_STATE_READFLASH /\ s.state # PROG_STATE_READEEPROM)

usbFunctionRead(s, len) ==
    IF ~ ReadStateOk(s)
    THEN [s EXCEPT !.len = 255]
    ELSE [ReadLast(ReadLoop(s, len), len) EXCEPT !.len = len]

-----------------------------------------------------------------------------
(* usbFunctionWrite *)

\* the flash / EEPROM branch of the loop body, lines 178-197
WriteTarget(s, b) ==
    IF s.state = PROG_STATE_WRITEFLASH
    THEN IF s.pagesize = 0
         THEN [s EXCEPT !.ops = Append(@, TOp("ispWriteFlash", s.address, b, 1, 183))]
         ELSE LET c == (s.pagecounter + U8 - 1) % U8     \* prog_pagecounter--
              IN  IF c = 0
                  THEN [s EXCEPT
                          !.ops = @ \o << TOp("ispWriteFlash", s.address, b, 0, 186),
                                          TOp("ispFlushPage", s.address, b, 0, 189) >>,
                          !.pagecounter = s.pagesize % U8]
                  ELSE [s EXCEPT
                          !.ops = Append(@, TOp("ispWriteFlash", s.address, b, 0, 186)),
                          !.pagecounter = c]
    ELSE [s EXCEPT !.ops = Append(@, TOp("ispWriteEEPROM", s.address, b, 0, 196))]

\* mutant: completion without "prog_state = PROG_STATE_IDLE"
WriteCount_StaysOpen(s, b) ==
    LET n == (s.nbytes + U16 - 1) % U16
    IN  IF n = 0
        THEN [s EXCEPT
                !.nbytes = n,
                !.ops = IF HasBit(s.blockflags, PROG_BLOCKFLAG_LAST)
                           /\ s.pagecounter # s.pagesize
                        THEN Append(@, TOp("ispFlushPage", s.address, b, 0, 207))
                        ELSE @,
                !.len = 1]
        ELSE [s EXCEPT !.nbytes = n]

\* prog_nbytes-- and the completion branch, lines 199-211
WriteCount(s, b) ==
    LET n == (s.nbytes + U16 - 1) % U16
    IN  IF n = 0
        THEN [s EXCEPT
                !.nbytes = n,
                !.state = PROG_STATE_IDLE,
                !.ops = IF HasBit(s.blockflags, PROG_BLOCKFLAG_LAST)
                           /\ s.pagecounter # s.pagesize
                        THEN Append(@, TOp("ispFlushPage", s.address, b, 0, 207))
                        ELSE @,
                !.len = 1]
        ELSE [s EXCEPT !.nbytes = n]

\* mutant: the loop without "prog_address++"
WriteByte_NoIncrement(s, b) == WriteCount(WriteTarget(s, b), b)

\* the body of the loop over the chunk
WriteByte(s, b) ==
    LET r == WriteCount(WriteTarget(s, b), b)
    IN  [r EXCEPT !.address = LongInc(r.address)]

RECURSIVE WriteLoop(_, _, _)
WriteLoop(s, data, i) ==
    IF i > Len(data) THEN s ELSE WriteLoop(WriteByte(s, data[i]), data, i + 1)

\* mutant: the write engine only checks that a transfer is open
WriteStateOk_AnyTransfer(s) == s.state # PROG_STATE_IDLE

WriteStateOk(s) ==
    ~ (s.state # PROG_STATE_WRITEFLASH /\ s.state # PROG_STATE_WRITEEEPROM)

\* data is the chunk, a sequence of len bytes; retVal is s.len
usbFunctionWrite(s, data) ==
    IF ~ WriteStateOk(s)
    THEN [s EXCEPT !.len = 255]
    ELSE WriteLoop(s, data, 1)

-----------------------------------------------------------------------------
(* History: what the transfer opened by the last bulk command has done.    *)
(* data is that command's descriptor, the other fields of the first line   *)
(* the state it left; bytes counts the payload bytes the engines have      *)
(* processed since then;                                                   *)
(* flushes lists, for each ispFlushPage, <<bytes processed so far, line>>; *)
(* cut tells that another command was dispatched since the transfer        *)
(* opened, which discards the record.                                      *)
(* A WriteFlash without First that follows a completed block of the same   *)
(* page size continues a multi-block write: chained tells that the block   *)
(* belongs to one that began with First, base counts the bytes of its      *)
(* earlier blocks and early lists their flushes, by position in the whole  *)
(* payload.                                                                *)

BulkOpcodes ==
    {USBASP_FUNC_READFLASH, USBASP_FUNC_READEEPROM,
     USBASP_FUNC_WRITEFLASH, USBASP_FUNC_WRITEEEPROM}

ByteOps == {"ispReadFlash", "ispReadEEPROM", "ispWriteFlash", "ispWriteEEPROM"}

NoSession ==
    [mode |-> PROG_STATE_IDLE, addr0 |-> Long(0, 0), n0 |-> 0, pc0 |-> 0,
     data |-> <<>>, bytes |-> 0, flushes |-> <<>>, cut |-> FALSE,
     chained |-> FALSE, base |-> 0, early |-> <<>>]

\* the flushes of the block on record, by position in the whole payload
AllFlushes(se) ==
    se.early \o [i \in 1..Len(se.flushes) |->
                    <<se.base + se.flushes[i][1], se.flushes[i][2]>>]

\* the block on record is a paged flash block of a multi-block write, not
\* the last, and has received exactly its byte count
BlockDone ==
    /\ sess.chained /\ ~ sess.cut
    /\ prog_state = PROG_STATE_IDLE
    /\ sess.n0 > 0 /\ sess.bytes = sess.n0
    /\ ~ HasBit(prog_blockflags, PROG_BLOCKFLAG_LAST)

\* the WriteFlash that left r continues the multi-block write on record
Continues(r) ==
    /\ BlockDone
    /\ r.state = PROG_STATE_WRITEFLASH
    /\ ~ HasBit(r.blockflags, PROG_BLOCKFLAG_FIRST)
    /\ r.pagesize = prog_pagesize

Opened(r, data) ==
    [mode |-> r.state, addr0 |-> r.address, n0 |-> r.nbytes, pc0 |-> r.pagecounter,
     data |-> data, bytes |-> 0, flushes |-> <<>>, cut |-> FALSE,
     chained |-> \/ Continues(r)
                 \/ /\ r.state = PROG_STATE_WRITEFLASH /\ r.pagesize > 0
                    /\ HasBit(r.blockflags, PROG_BLOCKFLAG_FIRST),
     base    |-> IF Continues(r) THEN sess.base + sess.n0 ELSE 0,
     early   |-> IF Continues(r) THEN AllFlushes(sess) ELSE <<>>]

RECURSIVE Track(_, _, _)
Track(se, ops, i) ==
    IF i > Len(ops) THEN se
    ELSE Track(
            IF ops[i].op \in ByteOps
            THEN [se EXCEPT !.bytes = @ + 1]
            ELSE IF ops[i].op = "ispFlushPage"
                 THEN [se EXCEPT !.flushes = Append(@, <<se.bytes, ops[i].line>>)]
                 ELSE se,
            ops, i + 1)

-----------------------------------------------------------------------------
(* The inputs *)

\* How far past an address set by a command the streaming engines may run,
\* per specification
FrameWindow == 2
ReadWindow  == 10
WriteWindow == 9
PagedWindow == 264

\* 16-bit inline addresses: 0x0010, 0x9999
LegacyAddrs == {16, 39321}
\* 32-bit extended addresses: 0x01020304, 0xFFFFFFFE
LongAddrs   == {Long(258, 772), Long(65535, 65534)}
\* SCK options of SetSckOption
SckOptions  == {3}
\* the four bytes of Transmit
TransmitWords == {<<172, 83, 0, 0>>}
\* opcodes outside the ten of usbasp.h
OtherOpcodes == {0, 255}

Lo(x) == x % U8
Hi(x) == (x \div U8) % U8

Env(pin, signExtends, status) ==
    [pin |-> pin, signExtends |-> signExtends, status |-> status]

Descriptor(op, b2, b3, b4, b5, b6, b7) ==
    LET t == <<0, op, b2, b3, b4, b5, b6, b7>> IN [i \in 0..7 |-> t[i + 1]]

\* the builds' outcomes of the inline address expression for the address a
ShiftOutcomes(a) == IF Hi(a) >= 128 THEN BOOLEAN ELSE {TRUE}

\* the payload of a chunk: its i-th byte
Payload(len) == [i \in 1..len |-> (1 + 16 * i) % U8]

\* every address a command of these inputs can assign, and the initial one
StartAddresses ==
    {Long(0, 0)} \cup LongAddrs
        \cup {LegacyAddress(Descriptor(0, Lo(a), Hi(a), 0, 0, 0, 0), sx) :
                 a \in LegacyAddrs \cup {0}, sx \in BOOLEAN}

\* a - a0 in 32 bits, when that is below 2^16, else 2^16
LongOffset(a, a0) ==
    IF a[1] = a0[1] /\ a[2] >= a0[2] THEN a[2] - a0[2]
    ELSE IF a[1] = (a0[1] + 1) % U16 /\ a[2] < a0[2] THEN a[2] + U16 - a0[2]
    ELSE U16

InWindow(len, W) ==
    \E a0 \in StartAddresses : LongOffset(prog_address, a0) + len <= W

-----------------------------------------------------------------------------
(* The state machine *)

Init ==
    /\ prog_state = PROG_STATE_IDLE
    /\ prog_sck = USBASP_ISP_SCK_AUTO
    /\ prog_address_newmode = 0
    /\ prog_address = Long(0, 0)
    /\ prog_nbytes = 0
    /\ prog_pagesize = 0
    /\ prog_blockflags = 0
    /\ prog_pagecounter = 0
    /\ call = [fn |-> "none", data |-> <<>>, pin |-> 1, ops |-> <<>>,
               buf |-> <<>>, ret |-> 0, connects |-> 0]
    /\ sess = NoSession

\* the statics take the values the handler left
Store(r) ==
    /\ prog_state' = r.state
    /\ prog_sck' = r.sck
    /\ prog_address_newmode' = r.newmode
    /\ prog_address' = r.address
    /\ prog_nbytes' = r.nbytes
    /\ prog_pagesize' = r.pagesize
    /\ prog_blockflags' = r.blockflags
    /\ prog_pagecounter' = r.pagecounter

\* the transport delivers a command descriptor
Dispatch(data, env) ==
    LET r == usbFunctionSetup(Session, data, env)
    IN  /\ Store(r)
        /\ call' = [fn |-> "usbFunctionSetup", data |-> data, pin |-> env.pin,
                    ops |-> r.ops, buf |-> r.buf, ret |-> r.len,
                    \* history: 1 for a Connect, 2 for a Connect that follows
                    \* a Connect with the same strap reading
                    connects |-> IF data[1] # USBASP_FUNC_CONNECT THEN 0
                                 ELSE IF call.connects > 0 /\ call.pin = env.pin
                                      THEN 2 ELSE 1]
        /\ sess' = IF data[1] \in BulkOpcodes THEN Opened(r, data)
                   ELSE [NoSession EXCEPT !.cut = TRUE]

\* the transport asks for a chunk of len bytes
ReadChunk(len) ==
    /\ LET r == usbFunctionRead(Session, len)
       IN  /\ Store(r)
           /\ call' = [fn |-> "usbFunctionRead", data |-> [i \in 1..len |-> 0],
                       pin |-> 1, ops |-> r.ops, buf |-> r.buf, ret |-> r.len,
                       connects |-> 0]
           /\ sess' = IF sess.cut THEN sess ELSE Track(sess, r.ops, 1)

\* the transport delivers a chunk
WriteChunk(data) ==
    /\ LET r == usbFunctionWrite(Session, data)
       IN  /\ Store(r)
           /\ call' = [fn |-> "usbFunctionWrite", data |-> data, pin |-> 1,
                       ops |-> r.ops, buf |-> r.buf, ret |-> r.len,
                       connects |-> 0]
           /\ sess' = IF sess.cut THEN sess ELSE Track(sess, r.ops, 1)

Connect ==
    \E pin \in {0, 1} :
        Dispatch(Descriptor(USBASP_FUNC_CONNECT, 0, 0, 0, 0, 0, 0), Env(pin, TRUE, 0))

Disconnect ==
    Dispatch(Descriptor(USBASP_FUNC_DISCONNECT, 0, 0, 0, 0, 0, 0), Env(1, TRUE, 0))

Transmit ==
    \E w \in TransmitWords :
        Dispatch(Descriptor(USBASP_FUNC_TRANSMIT, w[1], w[2], w[3], w[4], 0, 0),
                 Env(1, TRUE, 0))

EnableProg ==
    \E st \in EnterProgStatus :
        Dispatch(Descriptor(USBASP_FUNC_ENABLEPROG, 0, 0, 0, 0, 0, 0), Env(1, TRUE, st))

ReadFlash(A, N) ==
    \E a \in A, n \in N : \E sx \in ShiftOutcomes(a) :
        Dispatch(Descriptor(USBASP_FUNC_READFLASH, Lo(a), Hi(a), 0, 0, Lo(n), Hi(n)),
                 Env(1, sx, 0))

ReadEeprom(A, N) ==
    \E a \in A, n \in N : \E sx \in ShiftOutcomes(a) :
        Dispatch(Descriptor(USBASP_FUNC_READEEPROM, Lo(a), Hi(a), 0, 0, Lo(n), Hi(n)),
                 Env(1, sx, 0))

\* <<page size, block flags, byte count>> for every geometry of G and count of N
Transfers(G, N) == {<<g[1], g[2], n>> : g \in G, n \in N}

\* x = <<page size, block flags, byte count>>: the page size's bits 8-11
\* travel in the high nibble of data[5]
WriteFlash(A, X) ==
    \E a \in A, x \in X : \E sx \in ShiftOutcomes(a) :
        Dispatch(Descriptor(USBASP_FUNC_WRITEFLASH, Lo(a), Hi(a),
                            Lo(x[1]), 16 * Hi(x[1]) + x[2], Lo(x[3]), Hi(x[3])),
                 Env(1, sx, 0))

WriteEeprom(A, N) ==
    \E a \in A, n \in N : \E sx \in ShiftOutcomes(a) :
        Dispatch(Descriptor(USBASP_FUNC_WRITEEEPROM, Lo(a), Hi(a), 0, 0, Lo(n), Hi(n)),
                 Env(1, sx, 0))

SetLongAddress(A) ==
    \E a \in A :
        Dispatch(Descriptor(USBASP_FUNC_SETLONGADDRESS, Lo(a[2]), Hi(a[2]),
                            Lo(a[1]), Hi(a[1]), 0, 0),
                 Env(1, TRUE, 0))

SetIspSck ==
    \E o \in SckOptions :
        Dispatch(Descriptor(USBASP_FUNC_SETISPSCK, o, 0, 0, 0, 0, 0), Env(1, TRUE, 0))

\* an opcode usbFunctionSetup does not know, with parameters set
OtherOpcode ==
    \E op \in OtherOpcodes :
        Dispatch(Descriptor(op, 153, 153, 2, 3, 2, 0), Env(1, TRUE, 0))

Read(W) ==
    \E len \in 0..ChunkMax : InWindow(len, W) /\ ReadChunk(len)

Write(W) ==
    \E len \in 0..ChunkMax : InWindow(len, W) /\ WriteChunk(Payload(len))

-----------------------------------------------------------------------------
(* Spec: every command and both engines, on few parameters *)

FrameAddrs      == {39321}
FrameLongAddrs  == {Long(65535, 65534)}
FrameCounts     == {2}
FrameGeometries == {<<0, 0>>, <<2, 3>>}

Next ==
    \/ Connect
    \/ Disconnect
    \/ Transmit
    \/ EnableProg
    \/ ReadFlash(FrameAddrs, FrameCounts)
    \/ ReadEeprom(FrameAddrs, FrameCounts)
    \/ WriteFlash(FrameAddrs, Transfers(FrameGeometries, FrameCounts))
    \/ WriteEeprom(FrameAddrs, FrameCounts)
    \/ SetLongAddress(FrameLongAddrs)
    \/ SetIspSck
    \/ OtherOpcode
    \/ Read(FrameWindow)
    \/ Write(FrameWindow)

Spec == Init /\ [][Next]_vars

-----------------------------------------------------------------------------
(* Claims on Spec *)

\* the eight fields of the Session State
SessionVars ==
    <<prog_state, prog_address, prog_nbytes, prog_pagesize, prog_blockflags,
      prog_pagecounter, prog_address_newmode, prog_sck>>

RecognizedOpcodes ==
    {USBASP_FUNC_CONNECT, USBASP_FUNC_DISCONNECT, USBASP_FUNC_TRANSMIT,
     USBASP_FUNC_READFLASH, USBASP_FUNC_ENABLEPROG, USBASP_FUNC_WRITEFLASH,
     USBASP_FUNC_READEEPROM, USBASP_FUNC_WRITEEEPROM,
     USBASP_FUNC_SETLONGADDRESS, USBASP_FUNC_SETISPSCK}

\* the step is a call of usbFunctionSetup with this opcode
Dispatched(op) == call'.fn = "usbFunctionSetup" /\ call'.data[1] = op

\* C6: a read-engine call while mode is neither ReadFlash nor ReadEeprom, and
\* a write-engine call while mode is neither WriteFlash nor WriteEeprom,
\* returns 0xFF, calls no transport operation and leaves the Session State
\* unchanged.
C6_InvalidStateRejected ==
    [][ /\ ( /\ call'.fn = "usbFunctionRead"
             /\ prog_state \notin {PROG_STATE_READFLASH, PROG_STATE_READEEPROM} )
           => ( call'.ret = 255 /\ call'.ops = <<>> /\ UNCHANGED SessionVars )
        /\ ( /\ call'.fn = "usbFunctionWrite"
             /\ prog_state \notin {PROG_STATE_WRITEFLASH, PROG_STATE_WRITEEEPROM} )
           => ( call'.ret = 255 /\ call'.ops = <<>> /\ UNCHANGED SessionVars )
      ]_vars

\* C6 witness: the write engine was called with two bytes during a ReadEeprom
\* transfer and refused them.
C6_Witness ==
    /\ call.fn = "usbFunctionWrite"
    /\ Len(call.data) = 2
    /\ call.ret = 255
    /\ prog_state = PROG_STATE_READEEPROM

\* C8: useExtendedAddress goes from false to true only in a SetExtendedAddress
\* dispatch and from true to false only in a Connect dispatch; no other
\* command and no engine call changes it.
C8_NewmodeChanges ==
    [][ prog_address_newmode' # prog_address_newmode
        => \/ ( /\ prog_address_newmode = 0 /\ prog_address_newmode' = 1
                /\ Dispatched(USBASP_FUNC_SETLONGADDRESS) )
           \/ ( /\ prog_address_newmode = 1 /\ prog_address_newmode' = 0
                /\ Dispatched(USBASP_FUNC_CONNECT) )
      ]_vars

\* C8 witness: Disconnect was dispatched in extended-address mode, and the
\* mode is still set.
C8_Witness ==
    /\ call.fn = "usbFunctionSetup"
    /\ call.data[1] = USBASP_FUNC_DISCONNECT
    /\ prog_address_newmode = 1

\* C9: a descriptor with an opcode outside the ten returns length 0, calls no
\* transport operation and leaves the Session State unchanged.
C9_OtherOpcodeNoOp ==
    [][ ( call'.fn = "usbFunctionSetup" /\ call'.data[1] \notin RecognizedOpcodes )
        => ( call'.ret = 0 /\ call'.ops = <<>> /\ UNCHANGED SessionVars )
      ]_vars

\* C9 witness: an unknown opcode arrived in the middle of a flash write (one
\* byte written, one to come) and the transfer is as it was.
C9_Witness ==
    /\ call.fn = "usbFunctionSetup"
    /\ call.data[1] \notin RecognizedOpcodes
    /\ prog_state = PROG_STATE_WRITEFLASH
    /\ prog_address = Long(U16 - 1, 39322)
    /\ prog_nbytes = 1

\* C10: every Connect calls ispSetSCKOption (with the slow preset if the
\* strap reads low, else prog_sck) and then ispConnect, leaves
\* useExtendedAddress false and changes nothing else of the Session State; a
\* Connect that follows a Connect with the same strap reading leaves the
\* Session State as the first left it and makes the same transport calls.
C10_ConnectIdempotent ==
    [][ Dispatched(USBASP_FUNC_CONNECT)
        => /\ Len(call'.ops) = 2
           /\ call'.ops[1].op = "ispSetSCKOption"
           /\ call'.ops[1].val = ( IF call'.pin = 0 THEN USBASP_ISP_SCK_8
                                   ELSE prog_sck )
           /\ call'.ops[2].op = "ispConnect"
           /\ prog_address_newmode' = 0
           /\ UNCHANGED <<prog_state, prog_address, prog_nbytes, prog_pagesize,
                          prog_blockflags, prog_pagecounter, prog_sck>>
           /\ call'.connects = 2
              => ( UNCHANGED SessionVars /\ call'.ops = call.ops )
      ]_vars

\* C10 witness: a second Connect in a row, with the strap open and a clock
\* option set earlier by the host (SetIspSck with option 3).
C10_Witness ==
    /\ call.connects = 2
    /\ call.pin = 1
    /\ prog_sck = 3
    /\ prog_address_newmode = 0

\* the inline 16-bit address of the last descriptor, data[2] + 256 * data[3]
InlineAddress(data) == Long(0, data[2] + 256 * data[3])

\* C7: a ReadFlash, ReadEeprom, WriteFlash or WriteEeprom dispatch leaves
\* address unchanged while useExtendedAddress is true, and sets address to
\* the inline 16-bit address while it is false.
C7_InlineAddressRule ==
    [][ ( call'.fn = "usbFunctionSetup" /\ call'.data[1] \in BulkOpcodes )
        => IF prog_address_newmode = 1
           THEN prog_address' = prog_address
           ELSE prog_address' = InlineAddress(call'.data)
      ]_vars

-----------------------------------------------------------------------------
(* SpecRead: read transfers, in both address modes, chunk by chunk *)

ReadCounts == {10}

NextRead ==
    \/ Connect
    \/ SetLongAddress(LongAddrs)
    \/ ReadFlash(LegacyAddrs, ReadCounts)
    \/ ReadEeprom(LegacyAddrs, ReadCounts)
    \/ Read(ReadWindow)

SpecRead == Init /\ [][NextRead]_vars

\* C4: in a ReadFlash or ReadEeprom transfer started at address addr and
\* read with no other command in between, a
\* read-engine call for L bytes (0..8) returns L; its bytes are the target's
\* bytes, of the memory the mode selects, at the next L addresses of the
\* transfer (the j-th byte overall comes from addr + j - 1, in 32 bits); the
\* mode becomes Idle in the call if L < 8 and stays as it was if L = 8.
C4_ReadDeliversSequentialBytes ==
    ( call.fn = "usbFunctionRead" /\ call.ret # 255 /\ ~ sess.cut )
    => LET L    == Len(call.data)
           done == sess.bytes - L
       IN  /\ call.ret = L
           /\ Len(call.buf) = L
           /\ Len(call.ops) = L
           /\ \A j \in 1..L :
                LET a == LongPlus(sess.addr0, done + j - 1)
                IN  /\ call.ops[j].addr = a
                    /\ IF sess.mode = PROG_STATE_READFLASH
                       THEN /\ call.ops[j].op = "ispReadFlash"
                            /\ call.buf[j] = ispReadFlash(a)
                       ELSE /\ call.ops[j].op = "ispReadEEPROM"
                            /\ call.buf[j] = ispReadEEPROM(a)
           /\ prog_state = ( IF L < 8 THEN PROG_STATE_IDLE ELSE sess.mode )

\* C4 witness: ReadEeprom at 0x0010, read as a chunk of 8 and then a chunk
\* of 2, which ends the transfer.
C4_Witness ==
    /\ call.fn = "usbFunctionRead"
    /\ call.ret = 2
    /\ sess.mode = PROG_STATE_READEEPROM
    /\ sess.addr0 = Long(0, 16)
    /\ sess.bytes = 10
    /\ ~ sess.cut
    /\ prog_state = PROG_STATE_IDLE

-----------------------------------------------------------------------------
(* SpecWrite: write transfers, unpaged flash, paged flash and EEPROM, with *)
(* chunks that end before, at and after the byte count                     *)

WriteCounts     == {0, 1, 3}
\* unpaged; pages of 2 bytes, first and last block
WriteGeometries == {<<0, 0>>, <<2, 3>>}

NextWrite ==
    \/ Connect
    \/ WriteFlash(LegacyAddrs, Transfers(WriteGeometries, WriteCounts))
    \/ WriteEeprom(LegacyAddrs, WriteCounts)
    \/ Write(WriteWindow)

SpecWrite == Init /\ [][NextWrite]_vars

\* C3: after Connect and WriteFlash(addr, n, pageSize = 0), with the payload
\* written one byte per call, the i-th call (1 <= i <= n) makes exactly one
\* transport call, ispWriteFlash at addr + i - 1 with immediate commit (no
\* flush, no EEPROM write), and the mode is Idle after the n-th and
\* WriteFlash after every earlier one.
C3_UnpagedWrite ==
    ( /\ call.fn = "usbFunctionWrite" /\ call.ret # 255
      /\ ~ sess.cut
      /\ sess.mode = PROG_STATE_WRITEFLASH
      /\ prog_pagesize = 0
      /\ prog_address_newmode = 0
      /\ Len(call.data) = 1
      /\ sess.bytes \in 1..sess.n0 )
    => /\ call.ops = << TOp("ispWriteFlash",
                            LongPlus(InlineAddress(sess.data), sess.bytes - 1),
                            call.data[1], 1, 183) >>
       /\ prog_state = ( IF sess.bytes = sess.n0 THEN PROG_STATE_IDLE
                         ELSE PROG_STATE_WRITEFLASH )

\* C5: a write-engine call made in mode WriteFlash or WriteEeprom returns 1
\* if prog_nbytes reaches 0 at one of its bytes (it held 1..len before the
\* call) and 0 otherwise; after a call that returned 1 the mode is Idle.
C5_CompletionFlag ==
    [][ ( /\ call'.fn = "usbFunctionWrite"
          /\ prog_state \in {PROG_STATE_WRITEFLASH, PROG_STATE_WRITEEEPROM} )
        => /\ call'.ret = ( IF prog_nbytes \in 1..Len(call'.data) THEN 1 ELSE 0 )
           /\ call'.ret = 1 => prog_state' = PROG_STATE_IDLE
      ]_vars

\* C5 witness: a chunk of 8 bytes ended a paged flash write of 3 bytes: the
\* call returned 1, the mode is Idle, and the counter ran on past 0.
C5_Witness ==
    /\ call.fn = "usbFunctionWrite"
    /\ Len(call.data) = 8
    /\ call.ret = 1
    /\ sess.mode = PROG_STATE_WRITEFLASH
    /\ sess.n0 = 3
    /\ sess.bytes = 8
    /\ prog_pagesize = 2
    /\ prog_state = PROG_STATE_IDLE
    /\ prog_nbytes = U16 - 5

-----------------------------------------------------------------------------
(* SpecPaged: paged flash writes that begin a page (First set), with and    *)
(* without Last.  Pages of 2 and 3 bytes with 1 to 4 bytes, and pages of    *)
(* 260 bytes (data[4] = 0x04, high nibble of data[5] = 1) with 5 bytes and  *)
(* with one whole page, and one whole page of 256 bytes with Last.          *)

PagedAddrs == {16}

PagedTransfers ==
    Transfers({2, 3} \X {1, 3}, 1..4)
        \cup {<<260, 3, 5>>, <<260, 1, 260>>, <<256, 3, 256>>}

NextPaged ==
    \/ WriteFlash(PagedAddrs, PagedTransfers)
    \/ Write(PagedWindow)

SpecPaged == Init /\ [][NextPaged]_vars

\* the transfer on record is a paged flash write that began a page (First
\* set) and has received exactly its byte count, in calls of the write engine
\* with no command in between
PagedWriteDone ==
    /\ sess.mode = PROG_STATE_WRITEFLASH
    /\ ~ sess.cut
    /\ prog_pagesize > 0
    /\ HasBit(prog_blockflags, PROG_BLOCKFLAG_FIRST)
    /\ sess.n0 > 0
    /\ sess.bytes = sess.n0

\* C1: a WriteFlash transfer with page size P > 0 and K bytes, K a multiple
\* of P, makes exactly K/P calls of ispFlushPage, the i-th at byte i * P,
\* however the bytes are split into chunks.
C1_FlushPerPage ==
    ( PagedWriteDone /\ sess.n0 % prog_pagesize = 0 )
    => /\ Len(sess.flushes) = sess.n0 \div prog_pagesize
       /\ \A i \in 1..Len(sess.flushes) : sess.flushes[i][1] = i * prog_pagesize

\* C2: a WriteFlash transfer with page size P > 0, the Last flag and K
\* bytes, K not a multiple of P, makes exactly ceil(K/P) calls of
\* ispFlushPage: floor(K/P) on the page counter reaching 0 (main.c:189), at
\* bytes P, 2P, ..., and the last on prog_nbytes reaching 0 (main.c:207), at
\* byte K.
C2_FinalFlush ==
    ( /\ PagedWriteDone
      /\ HasBit(prog_blockflags, PROG_BLOCKFLAG_LAST)
      /\ sess.n0 % prog_pagesize # 0 )
    => LET full == sess.n0 \div prog_pagesize
       IN  /\ Len(sess.flushes) = full + 1
           /\ \A i \in 1..full : sess.flushes[i] = <<i * prog_pagesize, 189>>
           /\ sess.flushes[full + 1] = <<sess.n0, 207>>

-----------------------------------------------------------------------------
(* Claims on Spec: commands dispatched during a transfer *)

\* the mode a bulk command leaves
ModeOf(op) ==
    CASE op = USBASP_FUNC_READFLASH   -> PROG_STATE_READFLASH
      [] op = USBASP_FUNC_READEEPROM  -> PROG_STATE_READEEPROM
      [] op = USBASP_FUNC_WRITEFLASH  -> PROG_STATE_WRITEFLASH
      [] op = USBASP_FUNC_WRITEEEPROM -> PROG_STATE_WRITEEEPROM

\* C11: a command dispatched while a transfer is in progress (mode not Idle),
\* a Connect included, overwrites the mode and abandons the transfer: a
\* command that opens a transfer leaves its own mode, and after any other
\* command neither streaming engine, called next, reads or writes the target.
C11_DispatchAbandonsTransfer ==
    [][ ( /\ call'.fn = "usbFunctionSetup"
          /\ call'.data[1] \in RecognizedOpcodes
          /\ prog_state # PROG_STATE_IDLE )
        => IF call'.data[1] \in BulkOpcodes
           THEN prog_state' = ModeOf(call'.data[1])
           ELSE /\ usbFunctionRead(Session', 1).ops = <<>>
                /\ usbFunctionWrite(Session', Payload(1)).ops = <<>>
      ]_vars

-----------------------------------------------------------------------------
(* SpecDecode: the first command after power-on is a WriteFlash, with every *)
(* pair of bytes data[4], data[5]                                           *)

\* byte counts: 0x0102, 0xFFFF
DecodeCounts == {258, 65535}

PowerOnWriteFlash ==
    /\ call.fn = "none"
    /\ \E d4 \in 0..(U8 - 1), d5 \in 0..(U8 - 1), n \in DecodeCounts :
          Dispatch(Descriptor(USBASP_FUNC_WRITEFLASH, 52, 18, d4, d5, Lo(n), Hi(n)),
                   Env(1, TRUE, 0))

NextDecode == PowerOnWriteFlash

SpecDecode == Init /\ [][NextDecode]_vars

\* C12: a WriteFlash dispatch sets pageSize to data[4] plus 256 times the
\* high nibble of data[5] (a value in 0..4095), blockFlags to the low nibble
\* of data[5], remainingBytes to data[6] + 256 * data[7] and mode to
\* WriteFlash, for every pair of bytes data[4], data[5].
C12_WriteFlashDecoding ==
    [][ Dispatched(USBASP_FUNC_WRITEFLASH)
        => LET d == call'.data
           IN  /\ prog_pagesize' = d[4] + 256 * (d[5] \div 16)
               /\ prog_pagesize' \in 0..4095
               /\ prog_blockflags' = d[5] % 16
               /\ prog_nbytes' = d[6] + 256 * d[7]
               /\ prog_state' = PROG_STATE_WRITEFLASH
      ]_vars

\* C12 witness: WriteFlash with data[4] = 0xFF, data[5] = 0xF3 and byte count
\* 0xFFFF was dispatched: page size 4095, flags First and Last.
C12_Witness ==
    /\ call.fn = "usbFunctionSetup"
    /\ call.data[1] = USBASP_FUNC_WRITEFLASH
    /\ call.data[4] = 255
    /\ call.data[5] = 243
    /\ prog_pagesize = 4095
    /\ prog_blockflags = 3
    /\ prog_nbytes = 65535
    /\ prog_state = PROG_STATE_WRITEFLASH

-----------------------------------------------------------------------------
(* Claims on SpecPaged: the page counter *)

\* the last call was a write-engine call whose last byte filled a page: its
\* last transport call is the ispFlushPage of main.c:189
PageFullFlushLast ==
    /\ call.fn = "usbFunctionWrite"
    /\ Len(call.ops) > 0
    /\ call.ops[Len(call.ops)].op = "ispFlushPage"
    /\ call.ops[Len(call.ops)].line = 189

\* C13: while mode is WriteFlash and pageSize > 0, between bytes of the
\* write engine 0 < pageCounter <= pageSize, and right after a page-full
\* flush pageCounter = pageSize, for every encodable page size.
C13_PageCounterRange ==
    ( prog_state = PROG_STATE_WRITEFLASH /\ prog_pagesize > 0 )
    => /\ 0 < prog_pagecounter
       /\ prog_pagecounter <= prog_pagesize
       /\ PageFullFlushLast => prog_pagecounter = prog_pagesize

\* C14: when remainingBytes reaches 0 in a paged flash write, the completion
\* flush (main.c:207) is issued if and only if Last is set and the current
\* page is partly filled; no payload byte triggers two flushes.
C14_CompletionFlush ==
    ( /\ call.fn = "usbFunctionWrite" /\ call.ret = 1
      /\ ~ sess.cut
      /\ sess.mode = PROG_STATE_WRITEFLASH
      /\ prog_pagesize > 0
      /\ HasBit(prog_blockflags, PROG_BLOCKFLAG_FIRST)
      /\ sess.n0 > 0 )
    => /\ ( \E i \in 1..Len(sess.flushes) : sess.flushes[i] = <<sess.n0, 207>> )
          <=> ( /\ HasBit(prog_blockflags, PROG_BLOCKFLAG_LAST)
                /\ sess.n0 % prog_pagesize # 0 )
       /\ \A i, j \in 1..Len(sess.flushes) :
             i # j => sess.flushes[i][1] # sess.flushes[j][1]

-----------------------------------------------------------------------------
(* SpecBlocks: multi-block flash writes.  A block with First begins one; a  *)
(* block without First is sent only after a completed block that was not    *)
(* the last, with the same page size, while the whole payload stays within  *)
(* BlocksMax bytes.  Pages of 2 and 3 bytes and of 260 bytes.               *)

BlocksMax    == 7
BlocksWindow == 4

BlockAddrs  == {16}
BlockPages  == {2, 3, 260}
BlockCounts == {1, 2, 3}

BlockFirst ==
    WriteFlash(BlockAddrs,
               Transfers(BlockPages \X {PROG_BLOCKFLAG_FIRST,
                                        PROG_BLOCKFLAG_FIRST + PROG_BLOCKFLAG_LAST},
                         BlockCounts))

BlockNext ==
    /\ BlockDone
    /\ \E n \in BlockCounts :
          /\ sess.base + sess.n0 + n <= BlocksMax
          /\ WriteFlash(BlockAddrs,
                        Transfers({prog_pagesize} \X {0, PROG_BLOCKFLAG_LAST}, {n}))

NextBlocks ==
    \/ BlockFirst
    \/ BlockNext
    \/ Write(BlocksWindow)

SpecBlocks == Init /\ [][NextBlocks]_vars

\* C15: in a multi-block flash write with page size P > 0 (First on the
\* first block only, Last on the last only, every block written in full
\* before the next command) the flushes are exactly the page-full flushes at
\* bytes P, 2P, ... of the whole payload, wherever the blocks end, and one
\* completion flush at the last byte if and only if the total is not a
\* multiple of P.
C15_MultiBlockFlushes ==
    ( /\ sess.chained /\ ~ sess.cut
      /\ sess.n0 > 0 /\ sess.bytes <= sess.n0 )
    => LET P     == prog_pagesize
           sofar == sess.base + sess.bytes
           full  == sofar \div P
           all   == AllFlushes(sess)
           final == /\ sess.bytes = sess.n0
                    /\ HasBit(prog_blockflags, PROG_BLOCKFLAG_LAST)
                    /\ sofar % P # 0
       IN  /\ Len(all) = full + ( IF final THEN 1 ELSE 0 )
           /\ \A i \in 1..Len(all) :
                 all[i] = IF i <= full THEN <<i * P, 189>> ELSE <<sofar, 207>>

-----------------------------------------------------------------------------
(* Claims on SpecWrite: the bytes of a chunk past the end of the transfer *)

\* the positions in the transport calls of the last handler that write a
\* byte to the target
WritesOf(ops) ==
    {i \in 1..Len(ops) : ops[i].op \in {"ispWriteFlash", "ispWriteEEPROM"}}

\* C16: the write engine calls ispWriteEEPROM for a byte only if the mode is
\* WriteEeprom when that byte is processed; the bytes of a chunk after the
\* one at which remainingBytes reached 0 (mode already Idle) are written
\* neither to the EEPROM nor to the flash.
C16_EepromOnlyInWriteEeprom ==
    [][ call'.fn = "usbFunctionWrite"
        => /\ prog_state # PROG_STATE_WRITEEEPROM
              => \A i \in 1..Len(call'.ops) : call'.ops[i].op # "ispWriteEEPROM"
           /\ ( /\ prog_state \in {PROG_STATE_WRITEFLASH, PROG_STATE_WRITEEEPROM}
                /\ prog_nbytes \in 1..Len(call'.data) )
              => Cardinality(WritesOf(call'.ops)) = prog_nbytes
      ]_vars

\* C19: remainingBytes never wraps: a write-engine call made in mode
\* WriteFlash or WriteEeprom with len bytes leaves it at prog_nbytes - len, or
\* at 0 if it held less than len (a byte count of 0 included); it is never
\* decremented at 0.
C19_NbytesNeverWraps ==
    [][ ( /\ call'.fn = "usbFunctionWrite"
          /\ prog_state \in {PROG_STATE_WRITEFLASH, PROG_STATE_WRITEEEPROM} )
        => prog_nbytes' = IF Len(call'.data) <= prog_nbytes
                          THEN prog_nbytes - Len(call'.data)
                          ELSE 0
      ]_vars

-----------------------------------------------------------------------------
(* Claims on Spec: the address *)

\* the step is a call of a streaming engine that passes its state check
EngineRuns ==
    \/ /\ call'.fn = "usbFunctionRead"
       /\ prog_state \in {PROG_STATE_READFLASH, PROG_STATE_READEEPROM}
    \/ /\ call'.fn = "usbFunctionWrite"
       /\ prog_state \in {PROG_STATE_WRITEFLASH, PROG_STATE_WRITEEEPROM}

\* C17: a streaming-engine call that processes L bytes leaves address at its
\* old value plus L, modulo 2^32 (a refused call processes none); apart from
\* that, address changes only in a ReadFlash, ReadEeprom, WriteFlash or
\* WriteEeprom dispatch in legacy mode and in a SetExtendedAddress dispatch.
C17_AddressAdvancesByOne ==
    [][ /\ call'.fn \in {"usbFunctionRead", "usbFunctionWrite"}
           => prog_address' = IF EngineRuns
                              THEN LongPlus(prog_address, Len(call'.data))
                              ELSE prog_address
        /\ ( call'.fn = "usbFunctionSetup" /\ prog_address' # prog_address )
           => \/ /\ call'.data[1] \in BulkOpcodes
                 /\ prog_address_newmode = 0
              \/ call'.data[1] = USBASP_FUNC_SETLONGADDRESS
      ]_vars

\* C17 witness: a write-engine call wrote 2 bytes from 0xFFFFFFFE on, and
\* the address has wrapped to 0.
C17_Witness ==
    /\ call.fn = "usbFunctionWrite"
    /\ Len(call.data) = 2
    /\ Len(call.ops) = 2
    /\ call.ops[1].addr = Long(U16 - 1, U16 - 2)
    /\ call.ops[2].addr = Long(U16 - 1, U16 - 1)
    /\ prog_address = Long(0, 0)

\* C18: in legacy mode (useExtendedAddress false) a ReadFlash, ReadEeprom,
\* WriteFlash or WriteEeprom dispatch sets the 32-bit address to exactly
\* data[2] + 256 * data[3], a value in 0..65535, also for data[3] >= 0x80,
\* in every outcome of the 16-bit int expression.
C18_LegacyAddressExact ==
    [][ ( /\ Dispatched(USBASP_FUNC_READFLASH) \/ Dispatched(USBASP_FUNC_READEEPROM)
             \/ Dispatched(USBASP_FUNC_WRITEFLASH) \/ Dispatched(USBASP_FUNC_WRITEEEPROM)
          /\ prog_address_newmode = 0 )
        => /\ prog_address'[1] = 0
           /\ prog_address'[2] = call'.data[2] + 256 * call'.data[3]
      ]_vars

-----------------------------------------------------------------------------
(* Claims on Spec: the commands that do not open a transfer *)

TransferVars ==
    <<prog_state, prog_address, prog_nbytes, prog_pagesize, prog_blockflags,
      prog_pagecounter>>

\* the transport calls and the transfer fields a streaming-engine call
\* would produce from the session s
NextChunk(s) ==
    LET rd == usbFunctionRead(s, ChunkMax)
        wr == usbFunctionWrite(s, Payload(ChunkMax))
        T(r) == <<r.state, r.address, r.nbytes, r.pagesize, r.blockflags,
                  r.pagecounter, r.ops, r.buf, r.len>>
    IN  <<T(rd), T(wr)>>

\* C20: a Connect, Disconnect, Transmit, EnableProg or SetIspSck dispatch
\* leaves mode, address, remainingBytes, pageSize, blockFlags and pageCounter
\* unchanged, and SetExtendedAddress changes only address and
\* useExtendedAddress; after one of the five, the next streaming-engine call
\* does what it would have done before the command.
C20_TransferSurvivesCommand ==
    [][ /\ ( \/ Dispatched(USBASP_FUNC_CONNECT) \/ Dispatched(USBASP_FUNC_DISCONNECT)
             \/ Dispatched(USBASP_FUNC_TRANSMIT) \/ Dispatched(USBASP_FUNC_ENABLEPROG)
             \/ Dispatched(USBASP_FUNC_SETISPSCK) )
           => /\ UNCHANGED TransferVars
              /\ NextChunk(Session') = NextChunk(Session)
        /\ Dispatched(USBASP_FUNC_SETLONGADDRESS)
           => UNCHANGED <<prog_state, prog_nbytes, prog_pagesize, prog_blockflags,
                          prog_pagecounter, prog_sck>>
      ]_vars

\* C20 witness: EnableProg was dispatched one byte into a two-byte flash
\* write; the transfer is open, at the second byte's address.
C20_Witness ==
    /\ call.fn = "usbFunctionSetup"
    /\ call.data[1] = USBASP_FUNC_ENABLEPROG
    /\ prog_state = PROG_STATE_WRITEFLASH
    /\ prog_nbytes = 1
    /\ prog_address \in {Long(0, 39322), Long(U16 - 1, 39322)}

====
